---- MODULE Spec2Model ----
(***************************************************************************)
(* A model of googlebooks.search: the query object (SearchQueryType,       *)
(* SearchAdvancedQuery), the BookSearch cursor (__init__, __getitem__,     *)
(* __request_by_index, __request, __generate_params), its iterator         *)
(* BookIterSearch, and the Book record check of googlebooks.utils.         *)
(*                                                                         *)
(* Python values are modelled as follows.                                  *)
(*   - a str is a tuple of one-character strings;                          *)
(*   - an optional argument is a set: {} for None, {v} for the value v;    *)
(*   - a dict is a function whose DOMAIN is its key set;                   *)
(*   - an index argument is a record [type, val], so that non-int          *)
(*     arguments can be passed to __getitem__;                             *)
(*   - an exception is the name of its class, "None" when nothing is       *)
(*     raised.                                                             *)
(* The remote provider is the environment: it holds a fixed result list    *)
(* and answers every request with an HTTP error, or with a JSON body       *)
(* that has an 'items' list or lacks the 'items' key.                      *)
(***************************************************************************)
EXTENDS Integers, Sequences, FiniteSets, TLC

\* ----------------------------------------------------------------- bounds
\* Largest number of records the provider's result set holds.
MaxResults == 4
\* Most negative index a caller passes to __getitem__ directly is -MaxNeg.
MaxNeg == 1

\* Most literals a composite builder holds, over all its query types.
MaxLiterals == 3

\* The two iterators obtained from the one cursor.
Iters == {1, 2}

\* Who calls __getitem__: the user (0) or an iterator.
Callers == {0} \cup Iters

\* --------------------------------------------------------- python helpers
\* sorted((a, b, c)) as a tuple.
Sorted3(a, b, c) ==
    CHOOSE s \in {<<a, b, c>>, <<a, c, b>>, <<b, a, c>>,
                  <<b, c, a>>, <<c, a, b>>, <<c, b, a>>} :
        s[1] <= s[2] /\ s[2] <= s[3]

\* Python's floor division a // b for b > 0.
FloorDiv(a, b) ==
    IF a >= 0 THEN a \div b ELSE -((-a + b - 1) \div b)

\* dict.update: d with the entries of e written over it.
DictUpdate(d, e) ==
    [k \in DOMAIN d \cup DOMAIN e |-> IF k \in DOMAIN e THEN e[k] ELSE d[k]]

\* str.replace(old, new) for a one-character old and a new of length <= 1.
RECURSIVE StrReplace(_, _, _)
StrReplace(s, old, new) ==
    IF s = <<>> THEN <<>>
    ELSE (IF Head(s) = old THEN new ELSE <<Head(s)>>)
         \o StrReplace(Tail(s), old, new)

\* ------------------------------------------------------------ the records
\* A well-formed volume resource, as the provider returns it.
VolumeData(i) ==
    [id |-> i, isdict |-> TRUE, keys |-> {"kind", "selfLink"},
     kindtype |-> "str", kind |-> "books#volume"]

\* The malformed payloads BooksResource.__assert_valid_data tells apart:
\* not a dict, no 'kind', a 'kind' of another API, no 'selfLink', a 'kind'
\* that is not a str.
BadData(i) ==
    << [id |-> i, isdict |-> FALSE, keys |-> {}, kindtype |-> "str",
        kind |-> ""],
       [id |-> i, isdict |-> TRUE, keys |-> {"selfLink"},
        kindtype |-> "str", kind |-> ""],
       [id |-> i, isdict |-> TRUE, keys |-> {"kind", "selfLink"},
        kindtype |-> "str", kind |-> "youtube#video"],
       [id |-> i, isdict |-> TRUE, keys |-> {"kind"},
        kindtype |-> "str", kind |-> "books#volume"],
       [id |-> i, isdict |-> TRUE, keys |-> {"kind", "selfLink"},
        kindtype |-> "int", kind |-> ""] >>

\* str.startswith('books#') on the kinds the model uses.
StartsWithBooks(kind) == kind \in {"books#volume", "books#volumes"}

\* BooksResource.__assert_valid_data: the exception Book(data) raises. Only
\* AssertionError is turned into ValueError: a 'kind' without startswith
\* raises AttributeError.
assert_valid_data(data) ==
    IF ~data.isdict THEN "TypeError"
    ELSE IF "kind" \notin data.keys THEN "ValueError"
    ELSE IF data.kindtype # "str" THEN "AttributeError"
    ELSE IF ~StartsWithBooks(data.kind) THEN "ValueError"
    ELSE IF "selfLink" \notin data.keys THEN "ValueError"
    ELSE "None"

\* ------------------------------------------------------ the query builder
\* The characters the strings of the model are written in, in code order.
Alphabet ==
    <<" ", "\"", "'", "+", "-", ":", "a", "b", "c", "e", "h", "i", "j", "l",
      "n", "o", "p", "r", "s", "t", "u">>

\* ord(c).
CharCode(c) == CHOOSE i \in 1..Len(Alphabet) : Alphabet[i] = c

\* s < t on str.
RECURSIVE StrLess(_, _)
StrLess(s, t) ==
    IF t = <<>> THEN FALSE
    ELSE IF s = <<>> THEN TRUE
    ELSE IF Head(s) = Head(t) THEN StrLess(Tail(s), Tail(t))
    ELSE CharCode(Head(s)) < CharCode(Head(t))

\* The hash seeds a process may run with. Iterating a set of str visits it
\* in hash order, which the seed fixes for the whole process: seed 0 is
\* taken to visit in ascending order, seed 1 in descending order.
HashSeeds == {0, 1}

\* list(S) for a set of str under the process's hash seed.
RECURSIVE SetIter(_, _)
SetIter(S, seed) ==
    IF S = {} THEN <<>>
    ELSE LET m == CHOOSE x \in S : \A y \in S \ {x} :
                     IF seed = 0 THEN StrLess(x, y) ELSE StrLess(y, x)
         IN  <<m>> \o SetIter(S \ {m}, seed)

\* ''.join(seq) for a sequence of str.
RECURSIVE Join(_)
Join(seq) == IF seq = <<>> THEN <<>> ELSE Head(seq) \o Join(Tail(seq))

\* The elements of a sequence.
Range(seq) == { seq[i] : i \in 1..Len(seq) }

\* str.split() read left to right: cur is the word being read, acc the
\* words read so far.
RECURSIVE SplitRec(_, _, _)
SplitRec(s, cur, acc) ==
    IF s = <<>> THEN (IF cur = <<>> THEN acc ELSE Append(acc, cur))
    ELSE IF Head(s) = " "
    THEN SplitRec(Tail(s), <<>>, IF cur = <<>> THEN acc ELSE Append(acc, cur))
    ELSE SplitRec(Tail(s), cur \o <<Head(s)>>, acc)

\* str.split(' ') read left to right: every space ends a word, empty
\* words included.
RECURSIVE SplitSepRec(_, _, _)
SplitSepRec(s, cur, acc) ==
    IF s = <<>> THEN Append(acc, cur)
    ELSE IF Head(s) = " "
    THEN SplitSepRec(Tail(s), <<>>, Append(acc, cur))
    ELSE SplitSepRec(Tail(s), cur \o <<Head(s)>>, acc)

\* A split that is called with the separator ' '.
split_on_space(s) == SplitSepRec(s, <<>>, <<>>)

\* str.split(): the whitespace-separated words of s.
split(s) == SplitRec(s, <<>>, <<>>)

\* SearchAdvancedQuery.__AVALIABLE_QUERY_TYPES.
AVALIABLE_QUERY_TYPES ==
    {"intitle", "inauthor", "inpublisher", "subject", "isbn", "lccn", "oclc"}

\* A query type name as a str of the model.
Chars(name) ==
    CASE name = "intitle"     -> <<"i", "n", "t", "i", "t", "l", "e">>
      [] name = "inauthor"    -> <<"i", "n", "a", "u", "t", "h", "o", "r">>
      [] name = "inpublisher" -> <<"i", "n", "p", "u", "b", "l", "i", "s",
                                   "h", "e", "r">>
      [] name = "subject"     -> <<"s", "u", "b", "j", "e", "c", "t">>
      [] name = "isbn"        -> <<"i", "s", "b", "n">>
      [] name = "lccn"        -> <<"l", "c", "c", "n">>
      [] name = "oclc"        -> <<"o", "c", "l", "c">>

\* The name whose str is s.
NameOf(s) == CHOOSE name \in AVALIABLE_QUERY_TYPES : Chars(name) = s

\* SearchQueryType.__init__: _name is {} for None.
SearchQueryType(name) == [_name |-> name, _include |-> {}, _exclude |-> {}]

\* The literals of an include/exclude call: the quoted text when exact,
\* else the set of its words.
Literals(text, exact) ==
    IF exact THEN {<<"\"">> \o text \o <<"\"">>} ELSE Range(split(text))

\* An include that leaves the exclude set alone.
include_keep_excluded(self, query, exact) ==
    IF query.kind # "str" THEN [err |-> "TypeError", self |-> self]
    ELSE [err |-> "None",
          self |-> [self EXCEPT
                      !._include = @ \cup Literals(query.text, exact)]]

\* SearchQueryType.include: the exception raised and the builder afterwards.
include(self, query, exact) ==
    IF query.kind # "str" THEN [err |-> "TypeError", self |-> self]
    ELSE [err |-> "None",
          self |-> [self EXCEPT
                      !._include = @ \cup Literals(query.text, exact),
                      !._exclude = @ \ Literals(query.text, exact)]]

\* An exclude that does not look at the type of its argument: with exact
\* it quotes whatever it is given.
exclude_unchecked(self, query, exact) ==
    [err |-> "None",
     self |-> [self EXCEPT
                 !._exclude = @ \cup Literals(query.text, exact),
                 !._include = @ \ Literals(query.text, exact)]]

\* SearchQueryType.exclude: the exception raised and the builder afterwards.
exclude(self, query, exact) ==
    IF query.kind # "str" THEN [err |-> "TypeError", self |-> self]
    ELSE [err |-> "None",
          self |-> [self EXCEPT
                      !._exclude = @ \cup Literals(query.text, exact),
                      !._include = @ \ Literals(query.text, exact)]]

\* SearchQueryType.__generate_single_query_str.
generate_single_query_str(self, query, excl) ==
    <<IF excl THEN "-" ELSE "+">>
    \o (IF self._name # {} THEN Chars(CHOOSE n \in self._name : TRUE)
                                 \o <<":">>
        ELSE <<>>)
    \o query

\* SearchQueryType.__str__ under the process's hash seed.
SearchQueryType_str(self, seed) ==
    LET inc == SetIter(self._include, seed)
        exc == SetIter(self._exclude, seed)
    IN  Join([i \in 1..Len(inc) |->
                 generate_single_query_str(self, inc[i], FALSE)])
        \o Join([i \in 1..Len(exc) |->
                    generate_single_query_str(self, exc[i], TRUE)])

\* SearchAdvancedQuery.__init__: _queries is a dict, whose keys come in the
\* order the class's set of names is iterated in.
SearchAdvancedQuery(seed) ==
    [_main_query |-> SearchQueryType({}),
     _queries |-> [name \in AVALIABLE_QUERY_TYPES |->
                      SearchQueryType({name})],
     keys |-> LET order == SetIter({Chars(n) : n \in AVALIABLE_QUERY_TYPES},
                                   seed)
              IN  [i \in 1..Len(order) |-> NameOf(order[i])]]

\* A __str__ that puts the main query after the dict's values.
SearchAdvancedQuery_str_main_last(self, seed) ==
    Join([i \in 1..Len(self.keys) |->
            SearchQueryType_str(self._queries[self.keys[i]], seed)])
    \o SearchQueryType_str(self._main_query, seed)

\* A __str__ that joins the renders with a space.
SearchAdvancedQuery_str_spaced(self, seed) ==
    SearchQueryType_str(self._main_query, seed)
    \o Join([i \in 1..Len(self.keys) |->
               <<" ">> \o SearchQueryType_str(self._queries[self.keys[i]],
                                              seed)])

\* SearchAdvancedQuery.__str__: the main query, then the dict's values.
SearchAdvancedQuery_str(self, seed) ==
    SearchQueryType_str(self._main_query, seed)
    \o Join([i \in 1..Len(self.keys) |->
               SearchQueryType_str(self._queries[self.keys[i]], seed)])

\* ------------------------------------------------- construction arguments
\* OptionCollection.AvaliableOptions of the three option classes.
SearchFilters == {"partial", "full", "free-ebooks", "paid-ebooks", "ebooks"}
SearchPrintType == {"all", "books", "magazines"}
SearchSorting == {"relevance", "newest"}

\* An assert_valid_option that looks the option up in the options of all
\* three classes.
assert_valid_option_of_any_class(AvaliableOptions, option) ==
    IF option \notin SearchFilters \cup SearchPrintType \cup SearchSorting
    THEN "ValueError" ELSE "None"

\* OptionCollection.assert_valid_option: the exception it raises.
assert_valid_option(AvaliableOptions, option) ==
    IF option \notin AvaliableOptions THEN "ValueError" ELSE "None"

\* An __asserts_valid_language that accepts every str of two or more
\* characters.
asserts_valid_language_at_least_2(lang_iso) ==
    IF lang_iso.kind # "str" THEN "TypeError"
    ELSE IF Len(lang_iso.text) < 2 THEN "ValueError"
    ELSE "None"

\* BookSearch.__asserts_valid_language: the exception it raises.
asserts_valid_language(lang_iso) ==
    IF lang_iso.kind # "str" THEN "TypeError"
    ELSE IF Len(lang_iso.text) # 2 THEN "ValueError"
    ELSE "None"

\* The two entries of REPLACE_CHARS, each applied with str.replace.
ReplaceOperators(s) ==
    StrReplace(StrReplace(StrReplace(s, "+", <<" ">>), "-", <<" ">>),
               ":", <<" ">>)
ReplaceQuotes(s) == StrReplace(StrReplace(s, "\"", <<>>), "'", <<>>)

\* A __generate_query_string whose REPLACE_CHARS lacks the apostrophe.
generate_query_string_no_apostrophe(query, seed) ==
    IF query.kind = "str"
    THEN [err |-> "None",
          q |-> StrReplace(ReplaceOperators(query.text), "\"", <<>>)]
    ELSE IF query.kind = "SearchAdvancedQuery"
    THEN [err |-> "None", q |-> SearchAdvancedQuery_str(query.self, seed)]
    ELSE [err |-> "TypeError", q |-> <<>>]

\* BookSearch.__generate_query_string: the exception raised and the query
\* string. REPLACE_CHARS is a set, so the hash seed decides which of its
\* two entries is applied first.
generate_query_string(query, seed) ==
    IF query.kind = "str"
    THEN [err |-> "None",
          q |-> IF seed = 0 THEN ReplaceQuotes(ReplaceOperators(query.text))
                ELSE ReplaceOperators(ReplaceQuotes(query.text))]
    ELSE IF query.kind = "SearchAdvancedQuery"
    THEN [err |-> "None", q |-> SearchAdvancedQuery_str(query.self, seed)]
    ELSE [err |-> "TypeError", q |-> <<>>]

\* The value of an optional argument that is not None.
Value(arg) == CHOOSE v \in arg : TRUE

\* A __generate_params that keeps the keys whose value is None.
generate_params_keep_none(args, seed) ==
    LET qs   == generate_query_string(args.query, seed)
        eL   == IF args.lang = {} THEN "None"
                ELSE asserts_valid_language(Value(args.lang))
        eF   == IF args.search_filter = {} THEN "None"
                ELSE assert_valid_option(SearchFilters,
                                         Value(args.search_filter))
        eP   == IF args.print_type = {} THEN "None"
                ELSE assert_valid_option(SearchPrintType,
                                         Value(args.print_type))
        eO   == IF args.order = {} THEN "None"
                ELSE assert_valid_option(SearchSorting, Value(args.order))
        err  == IF qs.err # "None" THEN qs.err
                ELSE IF eL # "None" THEN eL
                ELSE IF eF # "None" THEN eF
                ELSE IF eP # "None" THEN eP
                ELSE eO
        downloadable_only == IF args.downloadable_only THEN {"epub"} ELSE {}
        extra == [k \in {"langRestrict", "filter", "printType", "orderBy",
                         "download"} |->
                    CASE k = "langRestrict" -> args.lang
                      [] k = "filter"       -> args.search_filter
                      [] k = "printType"    -> args.print_type
                      [] k = "orderBy"      -> args.order
                      [] k = "download"     -> downloadable_only]
        keys  == DOMAIN extra
        params == [k \in {"q", "projection"} \cup keys |->
                    IF k = "q" THEN qs.q
                    ELSE IF k = "projection" THEN "full"
                    ELSE IF extra[k] = {} THEN "None"
                    ELSE Value(extra[k])]
    IN  [err |-> err, params |-> IF err = "None" THEN params ELSE << >>]

\* BookSearch.__generate_params: the exception it raises and, when it
\* raises none, the parameter dict (keys with a None value are dropped).
generate_params(args, seed) ==
    LET qs   == generate_query_string(args.query, seed)
        eL   == IF args.lang = {} THEN "None"
                ELSE asserts_valid_language(Value(args.lang))
        eF   == IF args.search_filter = {} THEN "None"
                ELSE assert_valid_option(SearchFilters,
                                         Value(args.search_filter))
        eP   == IF args.print_type = {} THEN "None"
                ELSE assert_valid_option(SearchPrintType,
                                         Value(args.print_type))
        eO   == IF args.order = {} THEN "None"
                ELSE assert_valid_option(SearchSorting, Value(args.order))
        err  == IF qs.err # "None" THEN qs.err
                ELSE IF eL # "None" THEN eL
                ELSE IF eF # "None" THEN eF
                ELSE IF eP # "None" THEN eP
                ELSE eO
        downloadable_only == IF args.downloadable_only THEN {"epub"} ELSE {}
        extra == [k \in {"langRestrict", "filter", "printType", "orderBy",
                         "download"} |->
                    CASE k = "langRestrict" -> args.lang
                      [] k = "filter"       -> args.search_filter
                      [] k = "printType"    -> args.print_type
                      [] k = "orderBy"      -> args.order
                      [] k = "download"     -> downloadable_only]
        keys  == {k \in DOMAIN extra : extra[k] # {}}
        params == [k \in {"q", "projection"} \cup keys |->
                    IF k = "q" THEN qs.q
                    ELSE IF k = "projection" THEN "full"
                    ELSE Value(extra[k])]
    IN  [err |-> err, params |-> IF err = "None" THEN params ELSE << >>]

\* The constructor calls the cursor of the model is built by
\* (BookSearch.__init__).
CursorArgs ==
    { [query |-> [kind |-> "str", text |-> <<"a", "+", "b">>],
       lang |-> {[kind |-> "str", text |-> <<"e", "n">>]}, search_filter |-> {}, print_type |-> {},
       order |-> {"newest"}, downloadable_only |-> TRUE],
      [query |-> [kind |-> "str", text |-> <<"c">>],
       lang |-> {}, search_filter |-> {"full"}, print_type |-> {"books"},
       order |-> {}, downloadable_only |-> FALSE] }

\* The values BookSearch.BOOKS_PER_REQUEST is configured to (10 by default).
PageSizeSettings == {0, 2, 10, 41}

\* The result lists the provider may hold: up to MaxResults records, all
\* well-formed or with one malformed record, whose kind of malformation
\* rotates with its position.
ProviderLists ==
    UNION { { [i \in 1..n |-> VolumeData(i - 1)] } \cup
            { [i \in 1..n |-> IF i = b THEN BadData(b - 1)[((n + b) % 5) + 1]
                              ELSE VolumeData(i - 1)] : b \in 1..n }
          : n \in 0..MaxResults }

\* ------------------------------------------------------------- the state
VARIABLES
    BOOKS_PER_REQUEST,  \* BookSearch.BOOKS_PER_REQUEST
    params,             \* BookSearch.__params
    results,            \* BookSearch.__results: index -> raw record
    next_index,         \* BookIterSearch.__next_index of each iterator
    it_state,           \* "none" (not created), "active", or "ended" (a
                        \* step has raised StopIteration)
    yielded,            \* the records each iterator has returned, in order
    provider,           \* the provider's result list (environment)
    warmed,             \* the startIndex values for which a request of
                        \* each caller has brought records into the cache
    last,               \* the last call made and what it did
    hashseed,           \* the hash seed of the process
    query,              \* the SearchAdvancedQuery object of the caller
    mention,            \* for each query type, the last call (include or
                        \* exclude) that mentioned each literal
    qlast,              \* the last call on the query object
    cursor,             \* "none", or "built" once BookSearch() returned
    clast               \* the BookSearch() call made and how it ended

\* The state of the query object and of the construction.
bvars == <<hashseed, query, mention, qlast, cursor, clast>>

\* The state of a built cursor, its iterators and its provider.
cvars == <<BOOKS_PER_REQUEST, params, results, next_index, it_state, yielded,
           provider, warmed, last>>

vars == <<BOOKS_PER_REQUEST, params, results, next_index, it_state, yielded,
          provider, warmed, last, hashseed, query, mention, qlast, cursor,
          clast>>

\* ------------------------------------------------------------ the provider
\* The records the provider holds from position start >= 0 on, at most
\* max of them.
ProviderItems(start, max) ==
    LET e == IF start + max < Len(provider) THEN start + max
             ELSE Len(provider)
    IN  SubSeq(provider, start + 1, e)

\* How the provider may treat a request: "fail" it (transport error or
\* non-success status), answer with an 'items' "list", or answer with a
\* "bare" body that leaves the 'items' key out when it has nothing to list.
Modes == {"fail", "list", "bare"}

\* What requests.get / raise_for_status / json() produce for the request
\* sent, under the provider's mode. The provider refuses a negative
\* startIndex with a non-success status.
Answer(mode, sent) ==
    IF mode = "fail" \/ sent.startIndex < 0
    THEN [kind |-> "http_error", items |-> <<>>]
    ELSE LET items == ProviderItems(sent.startIndex, sent.maxResults)
         IN  IF mode = "bare" /\ items = <<>>
             THEN [kind |-> "no_items", items |-> <<>>]
             ELSE [kind |-> "items", items |-> items]

\* -------------------------------------------------------------- the cursor
\* A per_request that caps the setting at 40 and takes the default 10 for
\* a setting below 1.
per_request_default_below_1 ==
    IF BOOKS_PER_REQUEST > 40 THEN 40
    ELSE IF BOOKS_PER_REQUEST < 1 THEN 10
    ELSE BOOKS_PER_REQUEST

\* per_request of __request_by_index: BOOKS_PER_REQUEST clamped to 1..40.
per_request == Sorted3(1, BOOKS_PER_REQUEST, 40)[2]

\* A start_index that keeps the page number and forgets to scale it back.
start_index_page_number(index) == FloorDiv(index, per_request)

\* start_index of __request_by_index.
start_index(index) == FloorDiv(index, per_request) * per_request

\* A __request that swallows a failed request and returns an empty list.
request_swallow(additional_params, mode) ==
    LET sent == DictUpdate(params, additional_params)
        resp == Answer(mode, sent)
    IN  IF resp.kind = "no_items"
        THEN [sent |-> sent, resp |-> resp.kind, err |-> "KeyError",
              items |-> <<>>]
        ELSE [sent |-> sent, resp |-> resp.kind, err |-> "None",
              items |-> resp.items]

\* A __request of a cursor that keeps the query object and renders it for
\* every request.
request_live_query(additional_params, mode) ==
    LET q    == IF \E a \in clast.args : a.query.kind = "SearchAdvancedQuery"
                THEN [params EXCEPT
                        !.q = SearchAdvancedQuery_str(query, hashseed)]
                ELSE params
        sent == DictUpdate(q, additional_params)
        resp == Answer(mode, sent)
    IN  IF resp.kind = "http_error"
        THEN [sent |-> sent, resp |-> resp.kind, err |-> "HTTPError",
              items |-> <<>>]
        ELSE IF resp.kind = "no_items"
        THEN [sent |-> sent, resp |-> resp.kind, err |-> "KeyError",
              items |-> <<>>]
        ELSE [sent |-> sent, resp |-> resp.kind, err |-> "None",
              items |-> resp.items]

\* BookSearch.__request: the parameters sent, the response received, the
\* exception raised and the list returned.
request(additional_params, mode) ==
    LET sent == DictUpdate(params, additional_params)
        resp == Answer(mode, sent)
    IN  IF resp.kind = "http_error"
        THEN [sent |-> sent, resp |-> resp.kind, err |-> "HTTPError",
              items |-> <<>>]
        ELSE IF resp.kind = "no_items"
        THEN [sent |-> sent, resp |-> resp.kind, err |-> "KeyError",
              items |-> <<>>]
        ELSE [sent |-> sent, resp |-> resp.kind, err |-> "None",
              items |-> resp.items]

\* A __request_by_index whose enumerate() lacks start=start_index.
request_by_index_from_zero(cache, index, mode) ==
    LET start == start_index(index)
        r     == request([maxResults |-> per_request, startIndex |-> start],
                         mode)
        new   == 0 .. (Len(r.items) - 1)
    IN  [sent  |-> <<r.sent>>,
         resp  |-> r.resp,
         err   |-> r.err,
         n     |-> Len(r.items),
         cache |-> IF r.err # "None" THEN cache
                   ELSE [k \in DOMAIN cache \cup new |->
                            IF k \in new THEN r.items[k + 1]
                            ELSE cache[k]]]

\* BookSearch.__request_by_index: one request for the page of index, then
\* every returned record stored at start_index + its offset.
request_by_index(cache, index, mode) ==
    LET start == start_index(index)
        r     == request([maxResults |-> per_request, startIndex |-> start],
                         mode)
        new   == start .. (start + Len(r.items) - 1)
    IN  [sent  |-> <<r.sent>>,
         resp  |-> r.resp,
         err   |-> r.err,
         n     |-> Len(r.items),
         cache |-> IF r.err # "None" THEN cache
                   ELSE [k \in DOMAIN cache \cup new |->
                            IF k \in new THEN r.items[k - start + 1]
                            ELSE cache[k]]]

\* isinstance(index, int): bool is a subclass of int.
IsInt(index) == index.type \in {"int", "bool"}

\* The outcome of a __getitem__ call that sends no request.
NoRequest(cache) ==
    [sent |-> <<>>, resp |-> "none", err |-> "None", n |-> 0,
     cache |-> cache]

\* A lookup through dict.get: a missing index gives None, which Book()
\* rejects with TypeError instead of the KeyError of self.__results[index].
Lookup_dict_get(r, index) ==
    IF r.err # "None"
    THEN [err |-> r.err, ret |-> {}, cache |-> r.cache, sent |-> r.sent,
          resp |-> r.resp, n |-> r.n]
    ELSE IF index.val \notin DOMAIN r.cache
    THEN [err |-> "TypeError", ret |-> {}, cache |-> r.cache,
          sent |-> r.sent, resp |-> r.resp, n |-> r.n]
    ELSE IF assert_valid_data(r.cache[index.val]) # "None"
    THEN [err |-> assert_valid_data(r.cache[index.val]), ret |-> {},
          cache |-> r.cache, sent |-> r.sent, resp |-> r.resp, n |-> r.n]
    ELSE [err |-> "None", ret |-> {r.cache[index.val]}, cache |-> r.cache,
          sent |-> r.sent, resp |-> r.resp, n |-> r.n]

\* The tail of __getitem__ (lines 194-195) after the request step r:
\* self.__results[index] raises KeyError, Book(data) checks the record.
Lookup(r, index) ==
    IF r.err # "None"
    THEN [err |-> r.err, ret |-> {}, cache |-> r.cache, sent |-> r.sent,
          resp |-> r.resp, n |-> r.n]
    ELSE IF index.val \notin DOMAIN r.cache
    THEN [err |-> "KeyError", ret |-> {}, cache |-> r.cache,
          sent |-> r.sent, resp |-> r.resp, n |-> r.n]
    ELSE IF assert_valid_data(r.cache[index.val]) # "None"
    THEN [err |-> assert_valid_data(r.cache[index.val]), ret |-> {},
          cache |-> r.cache, sent |-> r.sent, resp |-> r.resp, n |-> r.n]
    ELSE [err |-> "None", ret |-> {r.cache[index.val]}, cache |-> r.cache,
          sent |-> r.sent, resp |-> r.resp, n |-> r.n]

\* A __getitem__ without the membership test: it requests the page on
\* every call.
getitem_always_fetch(cache, index, mode) ==
    IF ~IsInt(index)
    THEN [err |-> "TypeError", ret |-> {}, cache |-> cache, sent |-> <<>>,
          resp |-> "none", n |-> 0]
    ELSE Lookup(request_by_index(cache, index.val, mode), index)

\* A __getitem__ that sends a failed request a second time.
getitem_retry(cache, index, mode) ==
    IF ~IsInt(index)
    THEN [err |-> "TypeError", ret |-> {}, cache |-> cache, sent |-> <<>>,
          resp |-> "none", n |-> 0]
    ELSE IF index.val \notin DOMAIN cache
    THEN LET r == request_by_index(cache, index.val, mode)
         IN  Lookup(IF r.err = "HTTPError"
                    THEN [r EXCEPT !.sent = r.sent \o r.sent] ELSE r, index)
    ELSE Lookup(NoRequest(cache), index)

\* BookSearch.__getitem__: the outcome of self[index] on the given cache
\* under the provider's mode: the exception raised, the record the
\* returned Book wraps, the cache afterwards, the requests sent.
getitem(cache, index, mode) ==
    IF ~IsInt(index)
    THEN [err |-> "TypeError", ret |-> {}, cache |-> cache, sent |-> <<>>,
          resp |-> "none", n |-> 0]
    ELSE IF index.val \notin DOMAIN cache
    THEN Lookup(request_by_index(cache, index.val, mode), index)
    ELSE Lookup(NoRequest(cache), index)

\* A __next__ that starts counting at 1: it returns the record after the
\* one at its position.
next_step_off_by_one(pos, g) ==
    IF g.err = "KeyError"
    THEN [err |-> "StopIteration", ret |-> {}, next_index |-> pos]
    ELSE IF g.err # "None"
    THEN [err |-> g.err, ret |-> {}, next_index |-> pos]
    ELSE [err |-> "None", ret |-> g.ret, next_index |-> pos + 2]

\* A __next__ that increments its position in a finally clause.
next_step_always_advance(pos, g) ==
    IF g.err = "KeyError"
    THEN [err |-> "StopIteration", ret |-> {}, next_index |-> pos + 1]
    ELSE IF g.err # "None"
    THEN [err |-> g.err, ret |-> {}, next_index |-> pos + 1]
    ELSE [err |-> "None", ret |-> g.ret, next_index |-> pos + 1]

\* A __next__ that starts over from the first record once the results are
\* exhausted.
next_step_restart(pos, g) ==
    IF g.err = "KeyError"
    THEN [err |-> "StopIteration", ret |-> {}, next_index |-> 0]
    ELSE IF g.err # "None"
    THEN [err |-> g.err, ret |-> {}, next_index |-> pos]
    ELSE [err |-> "None", ret |-> g.ret, next_index |-> pos + 1]

\* A __next__ whose except clause catches every exception.
next_step_catch_all(pos, g) ==
    IF g.err # "None"
    THEN [err |-> "StopIteration", ret |-> {}, next_index |-> pos]
    ELSE [err |-> "None", ret |-> g.ret, next_index |-> pos + 1]

\* BookIterSearch.__next__: what a step at position pos does, given the
\* outcome g of parent[pos]: KeyError becomes StopIteration, any other
\* exception passes through, a returned book advances the position.
next_step(pos, g) ==
    IF g.err = "KeyError"
    THEN [err |-> "StopIteration", ret |-> {}, next_index |-> pos]
    ELSE IF g.err # "None"
    THEN [err |-> g.err, ret |-> {}, next_index |-> pos]
    ELSE [err |-> "None", ret |-> g.ret, next_index |-> pos + 1]

\* A position kept on the class: every iterator moves with each step.
advance_shared(positions, i, s) == [j \in DOMAIN positions |-> s.next_index]

\* self.__next_index after a step of iterator i with outcome s: each
\* iterator object holds its own position.
advance(positions, i, s) == [positions EXCEPT ![i] = s.next_index]

\* ---------------------------------------------------------------- actions
\* The index arguments callers pass to __getitem__ directly.
IndexArgs ==
    { [type |-> "int", val |-> v] : v \in -MaxNeg .. MaxResults }
    \cup { [type |-> "bool", val |-> 1], [type |-> "str", val |-> 0] }

\* The startIndex values of a sequence of requests.
Starts(sent) == { sent[j].startIndex : j \in 1..Len(sent) }

\* The pages each caller has brought into the cache, after a call of who
\* with outcome g.
Warm(who, g) ==
    [warmed EXCEPT ![who] = IF g.resp = "items" /\ g.n > 0
                            THEN @ \cup Starts(g.sent) ELSE @]

\* The record of a call: what was asked, what went over the wire, what
\* came back.
CallRecord(op, who, index, g, err) ==
    [op |-> op, who |-> who, index |-> index,
     cached |-> IsInt(index) /\ index.val \in DOMAIN results,
     again |-> Starts(g.sent) \cap UNION {warmed[c] : c \in Callers} # {},
     sent |-> g.sent, resp |-> g.resp, n |-> g.n,
     geterr |-> g.err, err |-> err, ret |-> g.ret]

NoIndex == [type |-> "none", val |-> 0]

\* The query types of a composite builder: _main_query and the keys of
\* _queries.
QueryTypes == {"_main_query"} \cup AVALIABLE_QUERY_TYPES

\* The properties of SearchAdvancedQuery and the key of _queries each one
\* returns.
Property(prop) ==
    CASE prop = "title"     -> "intitle"
      [] prop = "author"    -> "inauthor"
      [] prop = "publisher" -> "inpublisher"
      [] prop = "subject"   -> "subject"
      [] prop = "isbn"      -> "isbn"
      [] prop = "lccn"      -> "lccn"
      [] prop = "oclc"      -> "oclc"

\* A composite builder whose properties all return the one entry of
\* _queries.
Resolve_shared(target) ==
    IF target = "self" THEN "_main_query" ELSE "intitle"

\* The SearchQueryType a call on the composite builder reaches: its own
\* include/exclude delegate to _main_query, a property returns the entry
\* of _queries.
Resolve(target) ==
    IF target = "self" THEN "_main_query" ELSE Property(target)

\* The SearchQueryType w of the composite builder q, and q with it replaced.
Type(q, w) == IF w = "_main_query" THEN q._main_query ELSE q._queries[w]
WithType(q, w, t) ==
    IF w = "_main_query" THEN [q EXCEPT !._main_query = t]
    ELSE [q EXCEPT !._queries[w] = t]

\* The literals a composite builder holds, with their query type and set.
Entries(q) ==
    UNION { { <<w, "include", l>> : l \in Type(q, w)._include } \cup
            { <<w, "exclude", l>> : l \in Type(q, w)._exclude }
          : w \in QueryTypes }

\* The objects the caller calls include/exclude on: the composite builder
\* itself and two of its properties.
Targets == {"self", "title", "oclc"}

\* The query arguments of include/exclude: four strings and a non-str.
TextArgs ==
    { [kind |-> "str", text |-> t] :
        t \in { <<>>, <<" ">>, <<"a">>, <<"a", " ", "b">> } }
    \cup { [kind |-> "int", text |-> <<>>] }

\* The words of a text: its maximal runs of non-space characters.
Words(text) ==
    { SubSeq(text, p[1], p[2]) :
        p \in { p \in (1..Len(text)) \X (1..Len(text)) :
                  /\ p[1] <= p[2]
                  /\ \A k \in p[1]..p[2] : text[k] # " "
                  /\ (p[1] = 1 \/ text[p[1] - 1] = " ")
                  /\ (p[2] = Len(text) \/ text[p[2] + 1] = " ") } }

\* The literals a call names: the quoted text, or the words of the text.
Named(text, exact) ==
    IF exact THEN {<<"\"">> \o text \o <<"\"">>} ELSE Words(text)

\* The record of the last call that mentioned each literal of a query
\* type, after a call op on query type w.
Mention(w, op, text, exact) ==
    [mention EXCEPT ![w] =
        [l \in DOMAIN @ \cup Named(text, exact) |->
            IF l \in Named(text, exact) THEN op ELSE @[l]]]

\* The record of a call on the query object.
QueryCall(op, target, w, arg, exact, err, out) ==
    [op |-> op, target |-> target, which |-> w, query |-> arg,
     exact |-> exact, err |-> err, out |-> out]

\* No BookSearch() call made yet.
NoConstruct == [op |-> "none", args |-> {}, err |-> "None"]

\* The fields of a call record when no __getitem__ call was made.
NoCall(op, who) ==
    [op |-> op, who |-> who, index |-> NoIndex, cached |-> FALSE,
     again |-> FALSE, sent |-> <<>>, resp |-> "none", n |-> 0,
     geterr |-> "None", err |-> "None", ret |-> {}]

\* The result list of the provider the query object's callers talk to.
DefaultProvider == [i \in 1..2 |-> VolumeData(i - 1)]

\* The process before BookSearch() is called: a fresh query object, no
\* cursor.
BuildInit ==
    /\ BOOKS_PER_REQUEST = 10
    /\ params = << >>
    /\ results = << >>
    /\ next_index = [i \in Iters |-> 0]
    /\ it_state = [i \in Iters |-> "none"]
    /\ yielded = [i \in Iters |-> << >>]
    /\ provider = DefaultProvider
    /\ warmed = [c \in Callers |-> {}]
    /\ last = NoCall("init", 0)
    /\ hashseed \in HashSeeds
    /\ query = SearchAdvancedQuery(hashseed)
    /\ mention = [w \in QueryTypes |-> << >>]
    /\ qlast = QueryCall("new", "none", "none", [kind |-> "none", text |-> <<>>],
                         FALSE, "None", <<>>)
    /\ cursor = "none"
    /\ clast = NoConstruct

Init ==
    /\ BOOKS_PER_REQUEST \in PageSizeSettings
    /\ hashseed = 0
    /\ query = SearchAdvancedQuery(hashseed)
    /\ mention = [w \in QueryTypes |-> << >>]
    /\ qlast = QueryCall("new", "none", "none", [kind |-> "none", text |-> <<>>],
                         FALSE, "None", <<>>)
    /\ cursor = "built"
    /\ \E args \in CursorArgs :
          /\ generate_params(args, hashseed).err = "None"
          /\ params = generate_params(args, hashseed).params
          /\ clast = [op |-> "construct", args |-> {args}, err |-> "None"]
    /\ results = << >>
    /\ next_index = [i \in Iters |-> 0]
    /\ it_state = [i \in Iters |-> "none"]
    /\ yielded = [i \in Iters |-> << >>]
    /\ provider \in ProviderLists
    /\ warmed = [c \in Callers |-> {}]
    /\ last = NoCall("init", 0)

\* search[index], called by the user.
Get ==
    \E index \in IndexArgs, mode \in Modes :
      LET g == getitem(results, index, mode)
      IN  /\ cursor = "built"
          /\ results' = g.cache
          /\ warmed' = Warm(0, g)
          /\ last' = CallRecord("get", 0, index, g, g.err)
          /\ UNCHANGED <<BOOKS_PER_REQUEST, params, next_index, it_state,
                         yielded, provider>>
          /\ UNCHANGED bvars

\* An iter(search) that requests the first page ahead of the first step
\* and stores what comes back.
Iter_prefetch(i) ==
    LET g == request_by_index(results, 0, "list")
    IN  /\ cursor = "built"
        /\ it_state[i] = "none"
        /\ it_state' = [it_state EXCEPT ![i] = "active"]
        /\ next_index' = [next_index EXCEPT ![i] = 0]
        /\ results' = g.cache
        /\ last' = [NoCall("iter", i) EXCEPT !.sent = g.sent,
                                             !.resp = g.resp, !.n = g.n]
        /\ UNCHANGED <<BOOKS_PER_REQUEST, params, yielded, provider, warmed>>
        /\ UNCHANGED bvars

\* iter(search): BookSearch.__iter__ and BookIterSearch.__init__.
Iter(i) ==
    /\ cursor = "built"
    /\ it_state[i] = "none"
    /\ it_state' = [it_state EXCEPT ![i] = "active"]
    /\ next_index' = [next_index EXCEPT ![i] = 0]
    /\ last' = NoCall("iter", i)
    /\ UNCHANGED <<BOOKS_PER_REQUEST, params, results, yielded, provider,
                   warmed>>
    /\ UNCHANGED bvars

\* next(it): BookIterSearch.__next__ on iterator i.
Next_(i) ==
    /\ it_state[i] # "none"
    /\ \E mode \in Modes :
         LET index == [type |-> "int", val |-> next_index[i]]
             g == getitem(results, index, mode)
             s == next_step(next_index[i], g)
         IN  /\ results' = g.cache
             /\ next_index' = advance(next_index, i, s)
             /\ yielded' = [yielded EXCEPT ![i] =
                               IF s.err = "None"
                               THEN Append(@, CHOOSE d \in s.ret : TRUE)
                               ELSE @]
             /\ it_state' = [it_state EXCEPT ![i] =
                               IF s.err = "StopIteration" THEN "ended"
                               ELSE @]
             /\ warmed' = Warm(i, g)
             /\ last' = CallRecord("next", i, index, g, s.err)
    /\ UNCHANGED <<BOOKS_PER_REQUEST, params, provider>>
    /\ UNCHANGED bvars

\* SearchAdvancedQuery(): the caller replaces its query object by a new one.
NewQuery ==
    /\ cursor = "none"
    /\ query' = SearchAdvancedQuery(hashseed)
    /\ mention' = [w \in QueryTypes |-> << >>]
    /\ qlast' = QueryCall("new", "none", "none", [kind |-> "none", text |-> <<>>],
                          FALSE, "None", <<>>)
    /\ UNCHANGED <<hashseed, cursor, clast>>
    /\ UNCHANGED cvars

\* target.include(arg, exact) on the query object.
Include(target, arg, exact) ==
    LET w == Resolve(target)
        r == include(Type(query, w), arg, exact)
    IN  /\ Cardinality(Entries(WithType(query, w, r.self))) <= MaxLiterals
        /\ query' = WithType(query, w, r.self)
        /\ mention' = IF r.err = "None"
                      THEN Mention(w, "include", arg.text, exact)
                      ELSE mention
        /\ qlast' = QueryCall("include", target, w, arg, exact, r.err, <<>>)
        /\ UNCHANGED <<hashseed, cursor, clast>>
        /\ UNCHANGED cvars

\* target.exclude(arg, exact) on the query object.
Exclude(target, arg, exact) ==
    LET w == Resolve(target)
        r == exclude(Type(query, w), arg, exact)
    IN  /\ Cardinality(Entries(WithType(query, w, r.self))) <= MaxLiterals
        /\ query' = WithType(query, w, r.self)
        /\ mention' = IF r.err = "None"
                      THEN Mention(w, "exclude", arg.text, exact)
                      ELSE mention
        /\ qlast' = QueryCall("exclude", target, w, arg, exact, r.err, <<>>)
        /\ UNCHANGED <<hashseed, cursor, clast>>
        /\ UNCHANGED cvars

\* str(target): SearchQueryType.__str__ on one query type of the object.
Str(target) ==
    /\ qlast' = QueryCall("str", target, Resolve(target),
                          [kind |-> "none", text |-> <<>>], FALSE, "None",
                          SearchQueryType_str(Type(query, Resolve(target)),
                                              hashseed))
    /\ UNCHANGED <<hashseed, query, mention, cursor, clast>>
    /\ UNCHANGED cvars

\* str(query): SearchAdvancedQuery.__str__.
StrAdvanced ==
    /\ qlast' = QueryCall("str", "self", "SearchAdvancedQuery",
                          [kind |-> "none", text |-> <<>>], FALSE, "None",
                          SearchAdvancedQuery_str(query, hashseed))
    /\ UNCHANGED <<hashseed, query, mention, cursor, clast>>
    /\ UNCHANGED cvars

\* BookSearch(**args): __init__ stores the parameters and an empty cache,
\* or raises what __generate_params raises and leaves no cursor.
Construct(args) ==
    LET r == generate_params(args, hashseed)
    IN  /\ clast.op = "none"
        /\ cursor' = IF r.err = "None" THEN "built" ELSE "none"
        /\ params' = r.params
        /\ results' = << >>
        /\ clast' = [op |-> "construct", args |-> {args}, err |-> r.err]
        /\ UNCHANGED <<hashseed, query, mention, qlast>>
        /\ UNCHANGED <<BOOKS_PER_REQUEST, next_index, it_state, yielded,
                       provider, warmed, last>>

\* The provider's first record changes between two requests.
Revise ==
    /\ provider # <<>>
    /\ provider[1] = VolumeData(0)
    /\ provider' = [provider EXCEPT ![1] = [VolumeData(0) EXCEPT !.id = -1]]
    /\ UNCHANGED <<BOOKS_PER_REQUEST, params, results, next_index, it_state,
                   yielded, warmed, last>>
    /\ UNCHANGED bvars

\* A caller that looks results up by index.
Next == Get

Spec == Init /\ [][Next]_vars

\* Callers that iterate: two iterators over the one cursor, stepped in any
\* interleaving.
NextIter ==
    \/ \E i \in Iters : Iter(i)
    \/ \E i \in Iters : Next_(i)

IterSpec == Init /\ [][NextIter]_vars

\* A caller that looks results up by index while the provider's first
\* record changes.
NextDrift ==
    \/ Get
    \/ Revise

DriftSpec == Init /\ [][NextDrift]_vars

\* A caller that works on one query type of its query object, with every
\* text: include, exclude and render on query.title.
NextType ==
    \/ \E arg \in TextArgs, exact \in BOOLEAN : Include("title", arg, exact)
    \/ \E arg \in TextArgs, exact \in BOOLEAN : Exclude("title", arg, exact)
    \/ Str("title")

TypeSpec == BuildInit /\ [][NextType]_vars

\* A caller that spreads one word over the query types of its query
\* object: include, exclude and render on the object and its properties.
NextQuery ==
    \/ NewQuery
    \/ \E target \in Targets, exact \in BOOLEAN :
          Include(target, [kind |-> "str", text |-> <<"a">>], exact)
    \/ \E target \in Targets, exact \in BOOLEAN :
          Exclude(target, [kind |-> "str", text |-> <<"a">>], exact)
    \/ \E target \in Targets : Str(target)
    \/ StrAdvanced

QuerySpec == BuildInit /\ [][NextQuery]_vars

\* The raw-string and other queries BookSearch() is called with.
RawQueries ==
    { [kind |-> "str", text |-> <<"a", "+", "b">>],
      [kind |-> "str", text |-> <<"'", "a", ":", "-", "\"", "b">>],
      [kind |-> "int", text |-> <<>>] }

\* The lang arguments: None, 'en', '', 'english' and a list of two
\* strings.
LangArgs ==
    { {}, {[kind |-> "str", text |-> <<"e", "n">>]},
      {[kind |-> "str", text |-> <<>>]},
      {[kind |-> "str",
        text |-> <<"e", "n", "g", "l", "i", "s", "h">>]},
      {[kind |-> "list", text |-> <<"e", "n">>]} }

\* The search_filter, print_type and order arguments: None, every option
\* of the argument's own class, and an option of another class.
FilterArgs == {{}} \cup { {o} : o \in SearchFilters \cup {"books"} }
PrintTypeArgs == {{}} \cup { {o} : o \in SearchPrintType \cup {"full"} }
OrderArgs == {{}} \cup { {o} : o \in SearchSorting \cup {"all"} }

\* The BookSearch() calls of a caller that tries every argument, with the
\* query object as it stands or another query.
ConstructArgs ==
    [query : RawQueries \cup
             {[kind |-> "SearchAdvancedQuery", self |-> query]},
     lang : LangArgs, search_filter : FilterArgs,
     print_type : PrintTypeArgs, order : OrderArgs,
     downloadable_only : BOOLEAN]

\* A caller that puts two terms into its query object and then constructs
\* the cursor.
NextConstruct ==
    \/ /\ query = SearchAdvancedQuery(hashseed)
       /\ Include("title", [kind |-> "str", text |-> <<"a">>], FALSE)
    \/ /\ query # SearchAdvancedQuery(hashseed)
       /\ Exclude("self", [kind |-> "str", text |-> <<"a", " ", "b">>], TRUE)
    \/ \E args \in ConstructArgs : Construct(args)

ConstructSpec == BuildInit /\ [][NextConstruct]_vars

\* The BookSearch() calls of a caller that passes its query object or a
\* string.
FrameArgs ==
    CursorArgs \cup
    { [query |-> [kind |-> "SearchAdvancedQuery", self |-> query],
       lang |-> {}, search_filter |-> {}, print_type |-> {},
       order |-> {"relevance"}, downloadable_only |-> FALSE] }

\* A caller that goes on changing its query object after it has built the
\* cursor from it, and then looks results up.
NextFrame ==
    \/ \E target \in {"self", "title"} :
          /\ last.op = "init"
          /\ Include(target, [kind |-> "str", text |-> <<"a">>], FALSE)
    \/ /\ last.op = "init"
       /\ Exclude("self", [kind |-> "str", text |-> <<"a">>], FALSE)
    \/ \E args \in FrameArgs : Construct(args)
    \/ Get

FrameSpec == BuildInit /\ [][NextFrame]_vars

\* The composite builder and every one of its properties.
AllTargets ==
    {"self", "title", "author", "publisher", "subject", "isbn", "lccn",
     "oclc"}

\* A caller that puts one word into, or takes it out of, the composite
\* builder and each of its properties.
NextAccessor ==
    \/ \E target \in AllTargets :
          Include(target, [kind |-> "str", text |-> <<"a">>], FALSE)
    \/ \E target \in AllTargets :
          Exclude(target, [kind |-> "str", text |-> <<"a">>], FALSE)

AccessorSpec == BuildInit /\ [][NextAccessor]_vars

\* A caller that builds the cursor, creates an iterator, steps it and
\* looks results up by index.
NextLife ==
    \/ \E args \in FrameArgs : Construct(args)
    \/ Iter(1)
    \/ Next_(1)
    \/ Get

LifeSpec == BuildInit /\ [][NextLife]_vars

\* ------------------------------------------------------------- the claims
\* The calls that go through BookSearch.__getitem__.
Calls == {"get", "next"}

\* The other iterator.
Other(i) == CHOOSE j \in Iters : j # i

\* The first n records of the provider's result list.
Prefix(n) == SubSeq(provider, 1, n)

\* C1, as stated: at most one request is issued per page over the cursor's
\* lifetime, so no call sends a request for a page that an earlier request
\* has already brought records into the cache for.
C1_OneFetchPerPage == ~last.again

\* C1, amended: every call sends at most one request, and only when its
\* index is absent from the cache, so a page is requested again only by a
\* call that misses; the same index looked up twice in a row sends at most
\* one request in total whenever the first call left the index in the cache.
C1_FetchOnlyOnMiss ==
    [][ last'.op \in Calls =>
          /\ Len(last'.sent) <= 1
          /\ Len(last'.sent) = 1 =>
                IsInt(last'.index) /\ last'.index.val \notin DOMAIN results
          /\ last'.again => last'.index.val \notin DOMAIN results
          /\ ( /\ last.op \in Calls
               /\ last'.index = last.index
               /\ IsInt(last.index)
               /\ last.index.val \in DOMAIN results )
             => Len(last.sent) + Len(last'.sent) <= 1 ]_vars

\* C1 witness: a lookup served from the cache, on a page a previous call
\* fetched.
C1_Witness ==
    /\ last.op = "get" /\ last.cached /\ last.sent = <<>>
    /\ last.err = "None"
    /\ start_index(last.index.val) \in warmed[0]

\* C2: a call whose index is already a key of the cache returns the record
\* stored there (the decoder's error when the stored payload is malformed),
\* sends no request and leaves the cache as it was.
C2_CacheHit ==
    [][ ( /\ last'.op \in Calls
          /\ IsInt(last'.index)
          /\ last'.index.val \in DOMAIN results )
        => /\ last'.sent = <<>>
           /\ results' = results
           /\ warmed' = warmed
           /\ last'.geterr = assert_valid_data(results[last'.index.val])
           /\ last'.geterr = "None" =>
                 last'.ret = {results[last'.index.val]} ]_vars

\* C2 witness: a lookup of a cached index that returned the stored record.
C2_Witness ==
    /\ last.op = "get" /\ last.cached /\ last.geterr = "None"
    /\ last.ret = {results[last.index.val]}
    /\ last.index.val > 0

\* C3: a call with an uncached non-negative index sends exactly one
\* request, whose parameters are the cursor's fixed parameters plus
\* maxResults = P and a startIndex that is a multiple of P with
\* startIndex <= index < startIndex + P (index 25 with P = 10: 20).
C3_PageAlignedRequest ==
    /\ ( /\ last.op \in Calls
         /\ IsInt(last.index)
         /\ last.index.val >= 0
         /\ ~last.cached )
       => /\ Len(last.sent) = 1
          /\ LET s == last.sent[1]
                 P == per_request
                 i == last.index.val
             IN  /\ DOMAIN s = DOMAIN params \cup {"maxResults", "startIndex"}
                 /\ \A k \in DOMAIN params : s[k] = params[k]
                 /\ s.maxResults = P
                 /\ s.startIndex % P = 0
                 /\ s.startIndex <= i
                 /\ i < s.startIndex + P
    /\ per_request = 10 => start_index(25) = 20

\* C3 witness: an uncached index that is not the first of its page was
\* looked up, beyond the first page.
C3_Witness ==
    /\ last.op = "get" /\ last.index.type = "int" /\ ~last.cached
    /\ Len(last.sent) = 1
    /\ last.sent[1].startIndex > 0
    /\ last.index.val > last.sent[1].startIndex

\* C4: after a request that returned records, every returned record is in
\* the cache at startIndex + its offset, whichever index was asked for; a
\* full page puts all of startIndex .. startIndex + P - 1 in the cache.
C4_WholePageCached ==
    ( /\ last.op \in Calls
      /\ Len(last.sent) = 1
      /\ last.resp = "items" )
    => LET s == last.sent[1]
           items == ProviderItems(s.startIndex, s.maxResults)
       IN  /\ last.n = Len(items)
           /\ \A off \in 0 .. (last.n - 1) :
                 /\ s.startIndex + off \in DOMAIN results
                 /\ results[s.startIndex + off] = items[off + 1]
           /\ last.n = s.maxResults =>
                 \A k \in s.startIndex .. (s.startIndex + s.maxResults - 1) :
                     k \in DOMAIN results

\* C4 witness: a full page was returned to a lookup of an index that is
\* not the first of the page, and the first of the page is in the cache.
C4_Witness ==
    /\ last.op = "get" /\ Len(last.sent) = 1 /\ last.resp = "items"
    /\ last.n = last.sent[1].maxResults
    /\ last.index.val > last.sent[1].startIndex
    /\ last.sent[1].startIndex \in DOMAIN results

\* C5: when the request for the page of index returns k records with
\* k < index - startIndex + 1, the call fails with KeyError, index stays
\* absent from the cache, and the keys written are exactly
\* startIndex .. startIndex + k - 1.
C5_ShortPage ==
    [][ ( /\ last'.op \in Calls
          /\ Len(last'.sent) = 1
          /\ last'.resp \in {"items", "no_items"}
          /\ last'.n < last'.index.val - last'.sent[1].startIndex + 1 )
        => LET start == last'.sent[1].startIndex
               new   == start .. (start + last'.n - 1)
           IN  /\ last'.geterr = "KeyError"
               /\ last'.index.val \notin DOMAIN results'
               /\ DOMAIN results' = DOMAIN results \cup new
               /\ \A k \in DOMAIN results \ new : results'[k] = results[k]
       ]_vars

\* C5 witness: a page of fewer records than asked for was returned, and the
\* index looked up lies beyond them.
C5_Witness ==
    /\ last.op = "get" /\ Len(last.sent) = 1 /\ last.resp = "items"
    /\ last.n > 0
    /\ last.n < last.index.val - last.sent[1].startIndex + 1
    /\ last.geterr = "KeyError"
    /\ last.index.val \notin DOMAIN results

\* C6: for every N >= 0 (N = 0 and N a multiple of the page size
\* included), an iterator yields the records at indices 0, 1, ... in that
\* order, each once; as long as its requests succeed and the records are
\* well-formed, every step below N returns the record at its position and
\* moves on by one, and the step at position N ends the sequence without
\* an error, so the sequence ends after exactly the N records.
C6_IterationYieldsAll ==
    /\ \A i \in Iters :
          /\ next_index[i] <= Len(provider)
          /\ yielded[i] = Prefix(next_index[i])
    /\ last.op = "next" =>
          LET N   == Len(provider)
              pos == last.index.val
          IN  /\ last.err = "StopIteration" =>
                    pos = N /\ yielded[last.who] = provider
              /\ (last.resp # "http_error" /\ pos = N) =>
                    last.err = "StopIteration"
              /\ ( /\ last.resp # "http_error"
                   /\ pos < N
                   /\ assert_valid_data(provider[pos + 1]) = "None" )
                 => /\ last.err = "None"
                    /\ last.ret = {provider[pos + 1]}
                    /\ next_index[last.who] = pos + 1

\* C6 witness: an iterator has ended after yielding every record of a
\* non-empty result set whose size is a multiple of the page size.
C6_Witness ==
    \E i \in Iters :
        /\ it_state[i] = "ended"
        /\ yielded[i] = provider
        /\ Len(provider) > 0
        /\ Len(provider) % per_request = 0

\* C7, as stated: each of two interleaved iterators yields the sequence in
\* index order whatever the other's position, and a step whose index lies
\* in a page the other iterator has brought into the cache sends no
\* request.
C7_WarmedPageNoFetch ==
    /\ \A i \in Iters : yielded[i] = Prefix(next_index[i])
    /\ ( /\ last.op = "next"
         /\ start_index(last.index.val) \in warmed[Other(last.who)] )
       => last.sent = <<>>

\* C7, amended: each of two interleaved iterators yields the sequence in
\* index order whatever the other's position, and a step whose index is in
\* the shared cache sends no request; a step that requests a page the
\* other iterator has brought into the cache is a step at the end of the
\* result set, whose index that page does not hold.
C7_SharedCacheOwnPosition ==
    /\ \A i \in Iters : yielded[i] = Prefix(next_index[i])
    /\ last.op = "next" =>
          /\ last.cached => last.sent = <<>>
          /\ ( /\ Len(last.sent) = 1
               /\ last.sent[1].startIndex \in warmed[Other(last.who)] )
             => /\ ~last.cached
                /\ last.index.val >= Len(provider)

\* C7 witness: an iterator stepped, without a request, at an index of a
\* page the other iterator fetched, while the other stands further on.
C7_Witness ==
    /\ last.op = "next" /\ last.cached /\ last.sent = <<>>
    /\ last.err = "None"
    /\ start_index(last.index.val) \in warmed[Other(last.who)]
    /\ next_index[Other(last.who)] > next_index[last.who]

\* C8: when the request of a call fails, the call raises that HTTPError,
\* exactly one request was sent, and the cache is what it was.
C8_FailedRequest ==
    [][ (last'.op \in Calls /\ last'.resp = "http_error")
        => /\ last'.geterr = "HTTPError"
           /\ Len(last'.sent) = 1
           /\ results' = results ]_vars

\* C8 witness: a request failed on a cursor whose cache already holds
\* records.
C8_Witness ==
    /\ last.op = "get" /\ last.resp = "http_error"
    /\ last.geterr = "HTTPError"
    /\ DOMAIN results # {}

\* C9: an iterator step ends the sequence exactly when parent[index] raises
\* KeyError; any other exception reaches the consumer unchanged, and a
\* failed request never surfaces as KeyError or as the end of the sequence.
C9_StopOnlyOnKeyError ==
    last.op = "next" =>
        /\ last.err = "StopIteration" <=> last.geterr = "KeyError"
        /\ last.geterr # "KeyError" => last.err = last.geterr
        /\ last.resp = "http_error" =>
              last.geterr = "HTTPError" /\ last.err = "HTTPError"

\* C9 witness: a step past the first record failed with the error of its
\* request, and the iterator had already yielded a record.
C9_Witness ==
    /\ last.op = "next" /\ last.resp = "http_error"
    /\ last.err = "HTTPError"
    /\ yielded[last.who] # <<>>

\* C10, as stated: a call whose index is not a non-negative integer fails
\* with an invalid-argument error and sends no request, and the cache never
\* holds a negative key.
C10_NonNegativeIndexOnly ==
    /\ ( /\ last.op \in Calls
         /\ ~(IsInt(last.index) /\ last.index.val >= 0) )
       => /\ last.geterr \in {"TypeError", "ValueError"}
          /\ last.sent = <<>>
    /\ \A k \in DOMAIN results : k >= 0

\* ------------------------------------------- the claims on construction
\* The exceptions that report an invalid argument.
InvalidArgument == {"TypeError", "ValueError"}

\* The arguments of the BookSearch() call made.
TheArgs == CHOOSE a \in clast.args : TRUE

\* Whether a BookSearch() call was made.
Constructed == clast.op = "construct" /\ clast.args # {}

\* C11: a BookSearch() call whose lang is present and not exactly two
\* characters long raises an invalid-argument error, leaves no cursor, and
\* no request has been sent.
C11_LangLength ==
    ( /\ Constructed
      /\ TheArgs.lang # {}
      /\ \E l \in TheArgs.lang : Len(l.text) # 2 )
    => /\ clast.err \in InvalidArgument
       /\ cursor = "none"
       /\ params = << >> /\ results = << >>
       /\ last.sent = <<>>
       /\ \A c \in Callers : warmed[c] = {}

\* C11 witness: BookSearch('a+b', lang='english') raised ValueError.
C11_Witness ==
    /\ Constructed
    /\ TheArgs.query.kind = "str"
    /\ \E l \in TheArgs.lang : l.kind = "str" /\ Len(l.text) = 7
    /\ TheArgs.search_filter = {} /\ TheArgs.print_type = {}
    /\ TheArgs.order = {}
    /\ clast.err = "ValueError"
    /\ cursor = "none"

\* Whether each of filter, print type and order is absent or a member of
\* its own enumeration.
OptionsValid(a) ==
    /\ a.search_filter \subseteq
          {"partial", "full", "free-ebooks", "paid-ebooks", "ebooks"}
    /\ a.print_type \subseteq {"all", "books", "magazines"}
    /\ a.order \subseteq {"relevance", "newest"}

\* Whether the query and the lang of a call are acceptable.
QueryAndLangValid(a) ==
    /\ a.query.kind \in {"str", "SearchAdvancedQuery"}
    /\ \A l \in a.lang : l.kind = "str" /\ Len(l.text) = 2

\* C12: a BookSearch() call with a filter, print type or order outside its
\* own enumeration raises an invalid-argument error and leaves no cursor;
\* a call whose query and lang are acceptable succeeds exactly when each
\* of the three is absent or a member of its own enumeration.
C12_OptionEnumerations ==
    Constructed =>
      /\ ~OptionsValid(TheArgs) =>
            clast.err \in InvalidArgument /\ cursor = "none"
      /\ QueryAndLangValid(TheArgs) =>
            (clast.err = "None" /\ cursor = "built" <=> OptionsValid(TheArgs))

\* C12 witness: a call whose only fault is a filter that is an option of
\* the print-type enumeration raised ValueError.
C12_Witness ==
    /\ Constructed
    /\ QueryAndLangValid(TheArgs)
    /\ TheArgs.search_filter = {"books"}
    /\ TheArgs.print_type = {"books"}
    /\ TheArgs.order = {"newest"}
    /\ clast.err = "ValueError"
    /\ cursor = "none"

\* ------------------------------------------ the claims on the query object
\* C13: in every query type the include set and the exclude set are
\* disjoint, and every literal ever mentioned by an include or exclude call
\* is in exactly the set named by the last call that mentioned it.
C13_LastCallWins ==
    \A w \in QueryTypes :
       LET t == Type(query, w)
       IN  /\ t._include \cap t._exclude = {}
           /\ t._include \cup t._exclude = DOMAIN mention[w]
           /\ \A l \in DOMAIN mention[w] :
                 /\ mention[w][l] = "include" =>
                       l \in t._include /\ l \notin t._exclude
                 /\ mention[w][l] = "exclude" =>
                       l \in t._exclude /\ l \notin t._include

\* C13 witness: after include('a b') an exclude('a') has moved a to the
\* exclude set and left b included.
C13_Witness ==
    /\ qlast.op = "exclude" /\ qlast.err = "None" /\ ~qlast.exact
    /\ qlast.query.text = <<"a">>
    /\ Type(query, qlast.which)._include = {<<"b">>}
    /\ Type(query, qlast.which)._exclude = {<<"a">>}

\* The set a call adds to, and the set it removes from.
Side(t, op) == IF op = "include" THEN t._include ELSE t._exclude
OtherSide(t, op) == IF op = "include" THEN t._exclude ELSE t._include

\* C14: an include or exclude call with exact=False adds one bare literal
\* for every word of the text (none for an empty or all-space text), a call
\* with exact=True adds exactly one literal, the text in double quotes;
\* include adds to the include set and takes the literals out of the
\* exclude set, exclude the other way round, and nothing else changes.
C14_WordsOrPhrase ==
    [][ ( qlast'.op \in {"include", "exclude"} /\ qlast'.err = "None" ) =>
          LET w     == qlast'.which
              text  == qlast'.query.text
              added == IF qlast'.exact
                       THEN {<<"\"">> \o text \o <<"\"">>}
                       ELSE Words(text)
          IN  /\ Side(Type(query', w), qlast'.op)
                    = Side(Type(query, w), qlast'.op) \cup added
              /\ OtherSide(Type(query', w), qlast'.op)
                    = OtherSide(Type(query, w), qlast'.op) \ added
              /\ \A v \in QueryTypes \ {w} : Type(query', v) = Type(query, v)
              /\ qlast'.exact => Cardinality(added) = 1
              /\ ( ~qlast'.exact /\ \A i \in 1..Len(text) : text[i] = " " )
                    => added = {} ]_vars

\* C14 witness: include('a b') has added the two words a and b.
C14_Witness ==
    /\ qlast.op = "include" /\ qlast.err = "None" /\ ~qlast.exact
    /\ qlast.query.text = <<"a", " ", "b">>
    /\ Type(query, qlast.which)._include = {<<"a">>, <<"b">>}
    /\ Type(query, qlast.which)._exclude = {}

\* The literals the rendered object holds: those of one query type, or of
\* the whole query object.
Held(q, w) ==
    IF w = "SearchAdvancedQuery" THEN Entries(q)
    ELSE Type(q, w)._include \cup Type(q, w)._exclude

\* C15: rendering an object that holds no literal gives the empty string,
\* rendering leaves the query object as it is, and a render that follows a
\* render of the same object gives the same string.
C15_RenderEmptyAndIdempotent ==
    [][ qlast'.op = "str" =>
          /\ query' = query
          /\ Held(query, qlast'.which) = {} => qlast'.out = <<>>
          /\ ( qlast.op = "str" /\ qlast.which = qlast'.which )
                => qlast'.out = qlast.out ]_vars

\* C15 witness: str() of a query object that holds no literal gave ''.
C15_Witness ==
    /\ qlast.op = "str" /\ qlast.which = "SearchAdvancedQuery"
    /\ Entries(query) = {}
    /\ qlast.out = <<>>

\* The token of a literal: + or -, the scope and a colon unless the query
\* type is the scope-less one, the literal.
Token(e) ==
    <<IF e[2] = "include" THEN "+" ELSE "-">>
    \o (IF e[1] = "_main_query" THEN <<>> ELSE Chars(e[1]) \o <<":">>)
    \o e[3]

\* The place of a query type in the rendered string: the scope-less one
\* first, then the named ones in the order of keys.
Place(keys, w) ==
    IF w = "_main_query" THEN 0
    ELSE CHOOSE i \in 1..Len(keys) : keys[i] = w

\* The ways to write the entries down query type by query type in the
\* order of keys, the included literals of a type before its excluded ones.
Renderings(q, keys) ==
    LET n == Cardinality(Entries(q))
    IN  { Join([i \in 1..n |-> Token(o[i])]) :
            o \in { o \in [1..n -> Entries(q)] :
                      /\ \A i, j \in 1..n : i # j => o[i] # o[j]
                      /\ \A i, j \in 1..n : i < j =>
                            /\ Place(keys, o[i][1]) <= Place(keys, o[j][1])
                            /\ ( o[i][1] = o[j][1] /\ o[i][2] = "exclude" )
                                  => o[j][2] = "exclude" } }

\* C16: the string str(query) gives is the tokens of the scope-less query
\* type followed by those of the seven named ones, in the order of the
\* keys of _queries, with nothing between the tokens; that order is an
\* ordering of the seven names and is the same for every query object the
\* process creates and every render.
C16_CompositeRender ==
    [][ /\ query'.keys = query.keys
        /\ Len(query.keys) = 7
        /\ Range(query.keys) = {"intitle", "inauthor", "inpublisher",
                                "subject", "isbn", "lccn", "oclc"}
        /\ ( qlast'.op = "str" /\ qlast'.which = "SearchAdvancedQuery" )
              => qlast'.out \in Renderings(query, query.keys) ]_vars

\* C16 witness: str() of a query object that holds a literal in the
\* scope-less query type and in two named ones.
C16_Witness ==
    /\ qlast.op = "str" /\ qlast.which = "SearchAdvancedQuery"
    /\ Type(query, "_main_query")._include # {}
    /\ Type(query, "intitle")._exclude # {}
    /\ Type(query, "oclc")._include # {}
    /\ qlast.out # <<>>

\* --------------------------------------- the claims on the request parameters
\* A raw query with '+', '-' and ':' each turned into one space and the
\* two quote characters left out.
Sanitised(text) ==
    Join([i \in 1..Len(text) |->
            IF text[i] \in {"+", "-", ":"} THEN <<" ">>
            ELSE IF text[i] \in {"\"", "'"} THEN <<>>
            ELSE <<text[i]>>])

\* C17: a cursor built from a raw string sends as q that string with every
\* '+', '-' and ':' replaced by one space and every '"' and "'" removed, so
\* q holds none of the five characters; a cursor built from a query object
\* sends the string str(query) gave at construction, unmodified; a query of
\* any other type raises an invalid-argument error and leaves no cursor.
C17_QueryString ==
    Constructed =>
      /\ ( TheArgs.query.kind = "str" /\ clast.err = "None" ) =>
            /\ params.q = Sanitised(TheArgs.query.text)
            /\ Range(params.q) \cap {"+", "-", ":", "\"", "'"} = {}
      /\ ( TheArgs.query.kind = "SearchAdvancedQuery" /\ clast.err = "None" )
            => params.q \in Renderings(TheArgs.query.self,
                                       TheArgs.query.self.keys)
      /\ TheArgs.query.kind \notin {"str", "SearchAdvancedQuery"} =>
            clast.err \in InvalidArgument /\ cursor = "none"

\* C17 witness: a cursor built from the raw string 'a:-"b (with a leading
\* apostrophe) sends q = 'a  b'.
C17_Witness ==
    /\ Constructed /\ clast.err = "None" /\ cursor = "built"
    /\ TheArgs.query.kind = "str"
    /\ {"'", ":", "-", "\""} \subseteq Range(TheArgs.query.text)
    /\ params.q = <<"a", " ", " ", "b">>

\* The keys of the request parameters that come from optional arguments,
\* and the argument each one comes from.
Supplied(a) ==
    [langRestrict |-> a.lang, filter |-> a.search_filter,
     printType |-> a.print_type, orderBy |-> a.order,
     download |-> IF a.downloadable_only THEN {"epub"} ELSE {}]

\* C20: the parameters built at construction hold q, projection = full,
\* langRestrict, filter, printType and orderBy each exactly when the
\* argument was supplied and with the supplied value, download = epub
\* exactly when downloadable_only is true, and no other key.
C20_ParamsBuilt ==
    ( Constructed /\ clast.err = "None" ) =>
       /\ DOMAIN params =
             {"q", "projection"} \cup
             { k \in DOMAIN Supplied(TheArgs) : Supplied(TheArgs)[k] # {} }
       /\ params.projection = "full"
       /\ \A k \in DOMAIN Supplied(TheArgs) :
             k \in DOMAIN params => params[k] \in Supplied(TheArgs)[k]

\* C20 witness: a cursor built with lang and downloadable_only, without
\* filter, print type and order.
C20_Witness ==
    /\ Constructed /\ clast.err = "None" /\ cursor = "built"
    /\ TheArgs.lang # {} /\ TheArgs.downloadable_only
    /\ TheArgs.search_filter = {} /\ TheArgs.print_type = {}
    /\ TheArgs.order = {}
    /\ DOMAIN params = {"q", "projection", "langRestrict", "download"}

\* The parameters of a request without maxResults and startIndex.
Fixed(sent) ==
    [k \in DOMAIN sent \ {"maxResults", "startIndex"} |-> sent[k]]

\* C18: once the cursor is built its parameters never change, and every
\* request it sends carries them, with maxResults and startIndex as the
\* only other keys, whatever include and exclude calls are made on the
\* query object the cursor was built from.
C18_ParamsFrozen ==
    [][ /\ cursor = "built" => params' = params /\ cursor' = "built"
        /\ \A j \in 1..Len(last'.sent) :
              /\ Fixed(last'.sent[j]) = params
              /\ DOMAIN last'.sent[j] =
                    DOMAIN params \cup {"maxResults", "startIndex"} ]_vars

\* C18 witness: a request sent by a cursor built from the query object,
\* after the query object was changed: the request carries the q of the
\* construction, not the string the query object renders to now.
C18_Witness ==
    /\ cursor = "built"
    /\ \E a \in clast.args : a.query.kind = "SearchAdvancedQuery"
    /\ last.op = "get" /\ Len(last.sent) = 1
    /\ last.sent[1].q = params.q
    /\ params.q \notin Renderings(query, query.keys)

\* C19, as stated: the cache is append-only: a key once present is never
\* removed, and the record stored under a key is never replaced by a later
\* fetch.
C19_AppendOnly ==
    [][ \A k \in DOMAIN results :
           k \in DOMAIN results' /\ results'[k] = results[k] ]_vars

\* ------------------------------------------------- the claims on page size
\* The configured page size clamped into [1, 40].
Clamped ==
    IF BOOKS_PER_REQUEST < 1 THEN 1
    ELSE IF BOOKS_PER_REQUEST > 40 THEN 40
    ELSE BOOKS_PER_REQUEST

\* C21: every request asks for BOOKS_PER_REQUEST clamped into [1, 40]
\* records (1 below 1, 40 above 40, 10 for the default 10), and its
\* startIndex is computed with the same value: it is the multiple of the
\* page size whose page holds the index.
C21_PageSizeClamped ==
    /\ per_request = Clamped
    /\ BOOKS_PER_REQUEST = 10 => per_request = 10
    /\ \A j \in 1..Len(last.sent) :
          /\ last.sent[j].maxResults = Clamped
          /\ \E page \in -MaxNeg - 1 .. MaxResults :
                last.sent[j].startIndex = page * Clamped
          /\ last.sent[j].startIndex <= last.index.val
          /\ last.index.val < last.sent[j].startIndex + Clamped

\* C21 witness: with BOOKS_PER_REQUEST = 0 a lookup of index 2 asked for one
\* record from startIndex 2 on.
C21_Witness ==
    /\ BOOKS_PER_REQUEST = 0
    /\ last.op = "get" /\ last.index.val = 2
    /\ Len(last.sent) = 1
    /\ last.sent[1].maxResults = 1 /\ last.sent[1].startIndex = 2

\* ----------------------------------------------- the claims on iterators
\* C22: an iterator starts at position 0; a step that returns a record
\* returns the one cached under its position and moves the position on by
\* exactly 1, a step that fails or ends the sequence leaves the position
\* where it was, and no step moves another iterator; so the step after a
\* failed one asks for the same index again.
C22_PositionAdvance ==
    [][ /\ last'.op = "iter" => next_index'[last'.who] = 0
        /\ last'.op = "next" =>
              LET i == last'.who
              IN  /\ last'.index = [type |-> "int", val |-> next_index[i]]
                  /\ last'.err = "None" =>
                        /\ next_index'[i] = next_index[i] + 1
                        /\ last'.ret = {results'[next_index[i]]}
                        /\ yielded'[i] =
                              Append(yielded[i], results'[next_index[i]])
                  /\ last'.err # "None" =>
                        /\ next_index'[i] = next_index[i]
                        /\ yielded'[i] = yielded[i]
                  /\ \A j \in Iters \ {i} :
                        /\ next_index'[j] = next_index[j]
                        /\ yielded'[j] = yielded[j]
                  /\ ( /\ last.op = "next" /\ last.who = i
                       /\ last.err # "None" )
                     => last'.index = last.index ]_vars

\* C22 witness: a step whose request failed has left the iterator at the
\* position of its third record, after the first two were returned.
C22_Witness ==
    /\ last.op = "next" /\ last.err = "HTTPError"
    /\ last.index.val = 2
    /\ next_index[last.who] = 2
    /\ Len(yielded[last.who]) = 2
    /\ Len(provider) > 2

\* A raw record that is not a recognizable record: not a mapping, or
\* without a 'kind' that starts with 'books#', or without 'selfLink'.
Unrecognizable(data) ==
    \/ ~data.isdict
    \/ "kind" \notin data.keys
    \/ data.kindtype # "str"
    \/ data.kind \notin {"books#volume", "books#volumes"}
    \/ "selfLink" \notin data.keys

\* C23, as stated: when the raw record at the requested index is not a
\* recognizable record, parent[index] fails with an invalid-data error
\* (the TypeError or ValueError of the record check), not with KeyError,
\* and the iterator step delivers that error and does not end the
\* sequence; the recognizable records cached with it stay retrievable
\* without a request.
C23_InvalidData ==
    ( /\ last.op \in Calls
      /\ IsInt(last.index)
      /\ last.index.val \in DOMAIN results
      /\ Unrecognizable(results[last.index.val]) )
    => /\ last.geterr \in {"TypeError", "ValueError"}
       /\ last.op = "next" => last.err = last.geterr
       /\ \A k \in DOMAIN results, mode \in Modes :
             ~Unrecognizable(results[k]) =>
                LET g == getitem(results, [type |-> "int", val |-> k], mode)
                IN  g.err = "None" /\ g.ret = {results[k]} /\ g.sent = <<>>

\* C25, as stated: once an iterator has ended the sequence, every later
\* step of that iterator ends the sequence as well and yields no record.
C25_EndedStaysEnded ==
    [][ ( last'.op = "next" /\ it_state[last'.who] = "ended" ) =>
          /\ last'.err = "StopIteration"
          /\ yielded'[last'.who] = yielded[last'.who] ]_vars

\* C25, amended: once an iterator has ended the sequence, no later step of
\* that iterator yields a record or moves its position; a later step ends
\* the sequence again whenever its request is answered, and delivers the
\* transport error when its request fails.
C25_EndedYieldsNoMore ==
    [][ ( last'.op = "next" /\ it_state[last'.who] = "ended" ) =>
          /\ last'.err \in {"StopIteration", "HTTPError"}
          /\ last'.err = "HTTPError" <=> last'.resp = "http_error"
          /\ last'.ret = {}
          /\ yielded'[last'.who] = yielded[last'.who]
          /\ next_index'[last'.who] = next_index[last'.who]
          /\ it_state'[last'.who] = "ended" ]_vars

\* C25 witness: an iterator that had ended after its two records has been
\* stepped again and has ended again.
C25_Witness ==
    /\ last.op = "next" /\ last.err = "StopIteration"
    /\ it_state[last.who] = "ended"
    /\ Len(yielded[last.who]) = 2 /\ Len(provider) = 2
    /\ last.again

\* C24: the cache is changed only inside a lookup.  BookSearch() leaves a
\* cursor with an empty cache and sends nothing, iter(search) leaves the
\* cache as it is and sends nothing, every step that changes the cache is a
\* search[index] call (the user's or an iterator's), and such a call sends
\* at most one request.
C24_CacheOnlyInGet ==
    [][ /\ clast' # clast =>
            /\ results' = << >> /\ results = << >>
            /\ last' = last /\ warmed' = warmed
        /\ ( last' # last /\ last'.op = "iter" ) =>
            /\ results' = results /\ warmed' = warmed
            /\ last'.sent = << >> /\ last'.resp = "none"
        /\ results' # results =>
            /\ last'.op \in Calls
            /\ Len(last'.sent) = 1
        /\ last'.op \in Calls => Len(last'.sent) <= 1
        /\ last'.op \notin Calls => last'.sent = << >> ]_vars

\* An iterator is created on a cursor whose cache already holds records.
C24_Witness ==
    /\ clast.op = "construct" /\ cursor = "built"
    /\ last.op = "iter" /\ it_state[1] = "active"
    /\ results # << >>

\* C26: include and exclude called with a query that is not a str raise
\* TypeError, and the call leaves the include set and the exclude set of
\* the query type (and of every other one) as they were.
C26_NonStrRejected ==
    [][ ( /\ qlast' # qlast
          /\ qlast'.op \in {"include", "exclude"}
          /\ qlast'.query.kind # "str" ) =>
            /\ qlast'.err = "TypeError"
            /\ Type(query', qlast'.which) = Type(query, qlast'.which)
            /\ query' = query
            /\ mention' = mention ]_vars

\* A non-str query was refused by a query type that holds an included and
\* an excluded literal.
C26_Witness ==
    /\ qlast.op \in {"include", "exclude"}
    /\ qlast.query.kind # "str" /\ qlast.exact
    /\ qlast.err = "TypeError"
    /\ Type(query, qlast.which)._include # {}
    /\ Type(query, qlast.which)._exclude # {}

\* The scope each object of a composite builder stands for: the builder
\* itself for the scope-less terms, each accessor for its named scope.
ScopeOf(target) ==
    CASE target = "self"      -> "_main_query"
      [] target = "title"     -> "intitle"
      [] target = "author"    -> "inauthor"
      [] target = "publisher" -> "inpublisher"
      [] target = "subject"   -> "subject"
      [] target = "isbn"      -> "isbn"
      [] target = "lccn"      -> "lccn"
      [] target = "oclc"      -> "oclc"

\* C27: in a composite builder an include or exclude changes only the two
\* sets of the scope it is called on.  A call on the composite itself
\* changes only the scope-less builder, a call on an accessor leaves the
\* scope-less builder and every other named scope unchanged, and an
\* accessor returns the same builder every time: the call works on the
\* sets the earlier calls on that scope left.
C27_OnlyThatScope ==
    [][ ( qlast' # qlast /\ qlast'.op \in {"include", "exclude"} ) =>
          LET w   == ScopeOf(qlast'.target)
              old == Type(query, w)
              new == Type(query', w)
              lit == Named(qlast'.query.text, qlast'.exact)
          IN  /\ \A v \in QueryTypes \ {w} : Type(query', v) = Type(query, v)
              /\ query'.keys = query.keys
              /\ new._name = old._name
              /\ new._name = IF qlast'.target = "self" THEN {} ELSE {w}
              /\ ( qlast'.err = "None" /\ qlast'.op = "include" ) =>
                    /\ new._include = old._include \cup lit
                    /\ new._exclude = old._exclude \ lit
              /\ ( qlast'.err = "None" /\ qlast'.op = "exclude" ) =>
                    /\ new._exclude = old._exclude \cup lit
                    /\ new._include = old._include \ lit ]_vars

\* A call on the author accessor excluded a word that the scope-less
\* builder and the title scope hold as an included one.
C27_Witness ==
    /\ qlast.op = "exclude" /\ qlast.target = "author"
    /\ query._queries["inauthor"]._exclude = {<<"a">>}
    /\ query._queries["inauthor"]._include = {}
    /\ query._main_query._include = {<<"a">>}
    /\ query._queries["intitle"]._include = {<<"a">>}

====
